---- MODULE Spec2Model ----
(***************************************************************************)
(* Model of the WWRouteMenu plugin (src/main.py): a TTL cache over a       *)
(* directory listing, the message handlers that read it, the periodic      *)
(* cache cleaner and the teardown hook.                                    *)
(*                                                                         *)
(* Strings are sequences of one-character strings, so that strip(),        *)
(* lower() and os.path.splitext() are computed and not assumed.            *)
(* A dict is a function from keys to values; Optional[dict] is a sequence  *)
(* of length 0 (None) or 1 (the dict).                                     *)
(***************************************************************************)
EXTENDS Integers, Sequences, FiniteSets, TLC

\* ------------------------------------------------------------------ bounds

\* Granularity of the wall clock and the last clock value explored.
TimeStep == 299
MaxClock == 2093
\* Most directory entries at one time, in the lifecycle specification.
MaxFiles == 2
\* Most directory entries of a directory handed to the scan specification.
MaxListing == 3
\* Most handlers suspended at a yield at one time.
MaxInFlight == 1

\* ----------------------------------------------------------------- strings

Upper == <<"A","B","C","D","E","F","G","H","I","J","K","L","M",
           "N","O","P","Q","R","S","T","U","V","W","X","Y","Z">>
Lower == <<"a","b","c","d","e","f","g","h","i","j","k","l","m",
           "n","o","p","q","r","s","t","u","v","w","x","y","z">>

\* str.lower() on one character.
lower_char(c) ==
    IF \E i \in 1..Len(Upper) : Upper[i] = c
    THEN Lower[CHOOSE i \in 1..Len(Upper) : Upper[i] = c]
    ELSE c

\* A comparison of extensions that forgets .lower().
lower_forgotten(s) == s

\* str.lower()
lower(s) == [i \in 1..Len(s) |-> lower_char(s[i])]

\* The characters str.strip() removes (those of them the model uses).
Whitespace == {" ", "\t"}

RECURSIVE lstrip(_)
lstrip(s) ==
    IF s # <<>> /\ Head(s) \in Whitespace THEN lstrip(Tail(s)) ELSE s

RECURSIVE rstrip(_)
rstrip(s) ==
    IF s # <<>> /\ s[Len(s)] \in Whitespace
    THEN rstrip(SubSeq(s, 1, Len(s) - 1))
    ELSE s

\* str.strip()
strip(s) == rstrip(lstrip(s))

\* str.rfind(c) + 1: the last index of c in s, 0 when absent.
rfind(s, c) ==
    IF \E i \in 1..Len(s) : s[i] = c
    THEN CHOOSE i \in 1..Len(s) : s[i] = c /\ \A j \in (i+1)..Len(s) : s[j] # c
    ELSE 0

\* A splitext that cuts one character late: the dot stays with the root.
splitext_late(p) ==
    LET sepIndex == rfind(p, "/")
        dotIndex == rfind(p, ".")
    IN  IF dotIndex > sepIndex
           /\ \E k \in (sepIndex + 1)..(dotIndex - 1) : p[k] # "."
        THEN <<SubSeq(p, 1, dotIndex), SubSeq(p, dotIndex + 1, Len(p))>>
        ELSE <<p, <<>> >>

\* os.path.splitext(p) as <<root, ext>>: the extension starts at the last
\* dot of the last path component, unless only dots precede it there.
splitext(p) ==
    LET sepIndex == rfind(p, "/")
        dotIndex == rfind(p, ".")
    IN  IF dotIndex > sepIndex
           /\ \E k \in (sepIndex + 1)..(dotIndex - 1) : p[k] # "."
        THEN <<SubSeq(p, 1, dotIndex - 1), SubSeq(p, dotIndex, Len(p))>>
        ELSE <<p, <<>> >>

\* os.path.join(dir, name) for a relative name.
path_join(d, name) == d \o <<"/">> \o name

\* ------------------------------------------------------------ Optional[dict]

None == <<>>
Some(d) == <<d>>
EmptyDict == <<>>

\* An assignment that keeps the value a key already has (dict.setdefault).
dict_setdefault(d, k, v) ==
    [x \in (DOMAIN d) \cup {k} |-> IF x \in DOMAIN d THEN d[x] ELSE v]

\* d[k] = v
dict_set(d, k, v) == [x \in (DOMAIN d) \cup {k} |-> IF x = k THEN v ELSE d[x]]

\* len(d)
dict_len(d) == Cardinality(DOMAIN d)

\* -------------------------------------------------------------- the plugin

\* self.menu_dir, the path of the image directory.
menu_dir == <<"/", "m">>

\* self.image_extensions
image_extensions == { <<".","j","p","g">>, <<".","j","p","e","g">>,
                      <<".","p","n","g">>, <<".","g","i","f">>,
                      <<".","b","m","p">>, <<".","w","e","b","p">> }

\* self._cache_duration
cache_duration == 300

\* The period of _periodic_cache_cleaner.
cleaner_interval == 1800

VARIABLES
    disk,             \* the image directory: [state, entries], entries in listing order
    clock,            \* time.time()
    image_cache,      \* self._image_cache: None or Some(dict)
    cache_timestamp,  \* self._cache_timestamp
    wake_at,          \* the clock value the cleaner's sleep(1800) ends at
    terminated,       \* terminate() has run
    inflight,         \* the handle_image_request generators suspended at the
                      \*   yield of line 136, with event.stop_event() still to run
    scanned,          \* ghost: what the last directory scan found, and its clock value
    since_change,     \* ghost: the time since the directory last changed, counted
                      \*        up to cache_duration
    returned,         \* ghost: the dict the last _get_image_files_cached call
                      \*        returned; None since the last invalidation
    last              \* ghost: the last operation and what it emitted

vars == <<disk, clock, image_cache, cache_timestamp, wake_at, terminated,
          inflight, scanned, since_change, returned, last>>

\* --------------------------------------------------------------- filesystem

\* os.path.exists(self.menu_dir)
dir_exists(dk) == dk.state # "missing"

\* os.path.isfile(path), for a path inside the image directory.
isfile(dk, path) ==
    /\ dk.state # "missing"
    /\ \E i \in 1..Len(dk.entries) :
          /\ path_join(menu_dir, dk.entries[i].name) = path
          /\ dk.entries[i].kind = "file"

\* os.path.exists(path), for a path inside the image directory.
path_exists(dk, path) ==
    /\ dk.state # "missing"
    /\ \E i \in 1..Len(dk.entries) :
          path_join(menu_dir, dk.entries[i].name) = path

\* os.path.getsize(path), for a path that exists.
getsize(dk, path) ==
    LET i == CHOOSE j \in 1..Len(dk.entries) :
                 path_join(menu_dir, dk.entries[j].name) = path
    IN  dk.entries[i].size

\* The loop of _get_image_files over os.listdir's result, from entry i on.
RECURSIVE scan_loop(_, _, _)
scan_loop(dk, i, image_dict) ==
    IF i > Len(dk.entries) THEN image_dict
    ELSE LET filename == dk.entries[i].name
             file_path == path_join(menu_dir, filename)
         IN  IF isfile(dk, file_path)
                /\ lower(splitext(filename)[2]) \in image_extensions
             THEN scan_loop(dk, i + 1,
                            dict_set(image_dict, splitext(filename)[1], file_path))
             ELSE scan_loop(dk, i + 1, image_dict)

\* A scan that takes an unreadable directory for a readable one.
get_image_files_unguarded(dk) ==
    IF ~dir_exists(dk) THEN EmptyDict
    ELSE scan_loop(dk, 1, EmptyDict)

\* _get_image_files: {} for a missing directory and for one os.listdir
\* raises on; otherwise the dict the loop builds.
get_image_files(dk) ==
    IF ~dir_exists(dk) THEN EmptyDict
    ELSE IF dk.state = "unreadable" THEN EmptyDict
    ELSE scan_loop(dk, 1, EmptyDict)

\* ------------------------------------------------------------------ cache

\* A freshness test with the comparison turned round.
cache_is_fresh_flipped(cache, timestamp, current_time) ==
    /\ cache # None
    /\ current_time - timestamp > cache_duration

\* A freshness test that never lets a present cache expire.
cache_is_fresh_forever(cache, timestamp, current_time) ==
    cache # None

\* A freshness test on the truth value of the cache: an empty dict is
\* taken for no cache.
cache_is_fresh_truthy(cache, timestamp, current_time) ==
    /\ cache # None /\ cache[1] # EmptyDict
    /\ current_time - timestamp < cache_duration

\* The test of _get_image_files_cached: the cache is present and younger
\* than self._cache_duration.
cache_is_fresh(cache, timestamp, current_time) ==
    /\ cache # None
    /\ current_time - timestamp < cache_duration

\* A refresh that updates the dict in place (dict.update) instead of
\* replacing it.
get_image_files_cached_update(cache, timestamp, current_time, dk) ==
    IF cache_is_fresh(cache, timestamp, current_time)
    THEN [cache |-> cache, timestamp |-> timestamp, ret |-> cache[1], scans |-> 0]
    ELSE LET found == get_image_files(dk)
             old == IF cache = None THEN EmptyDict ELSE cache[1]
             image_dict == [k \in (DOMAIN old) \cup (DOMAIN found) |->
                               IF k \in DOMAIN found THEN found[k] ELSE old[k]]
         IN  [cache |-> Some(image_dict), timestamp |-> current_time,
              ret |-> image_dict, scans |-> 1]

\* _get_image_files_cached on (cache, timestamp) at current_time, reading
\* directory dk: the new cache and timestamp, the dict returned, and the
\* number of directory scans made.
get_image_files_cached(cache, timestamp, current_time, dk) ==
    IF cache_is_fresh(cache, timestamp, current_time)
    THEN [cache |-> cache, timestamp |-> timestamp, ret |-> cache[1], scans |-> 0]
    ELSE LET image_dict == get_image_files(dk)
         IN  [cache |-> Some(image_dict), timestamp |-> current_time,
              ret |-> image_dict, scans |-> 1]

\* An invalidation that resets the timestamp and keeps the dict.
invalidate_timestamp_only(cache, timestamp) == [cache |-> cache, timestamp |-> 0]

\* _invalidate_cache on (cache, timestamp): the new cache and timestamp.
invalidate_cache(cache, timestamp) == [cache |-> None, timestamp |-> 0]

\* A lookup that falls back on the keys the name is a prefix of, as the
\* first revision's fuzzy matching did.
find_in_fuzzy(image_dict, name) ==
    IF strip(name) \in DOMAIN image_dict
    THEN Some(image_dict[strip(name)])
    ELSE LET near == { k \in DOMAIN image_dict :
                         /\ Len(k) >= Len(strip(name))
                         /\ SubSeq(k, 1, Len(strip(name))) = strip(name) }
         IN  IF near # {} THEN Some(image_dict[CHOOSE k \in near : TRUE]) ELSE None

\* dict.get(name.strip(), None) of _find_image_by_name, as an Optional path.
find_in(image_dict, name) ==
    IF strip(name) \in DOMAIN image_dict
    THEN Some(image_dict[strip(name)])
    ELSE None

\* The test of handle_image_request that ignores from 50 characters on.
is_ignored_from_50(message_text) ==
    \/ message_text = <<>>
    \/ Head(message_text) = "/"
    \/ Len(message_text) >= 50

\* The tests of handle_image_request on the stripped text: an empty
\* message, a command, and a message of more than 50 characters are ignored.
is_ignored(message_text) ==
    \/ message_text = <<>>
    \/ Head(message_text) = "/"
    \/ Len(message_text) > 50

\* A statistics loop that takes every cached entry for a file that exists.
RECURSIVE statistics_trusting(_, _, _, _)
statistics_trusting(image_dict, keys, dk, acc) ==
    IF keys = {} THEN acc
    ELSE LET display_name == CHOOSE k \in keys : TRUE
             file_path == image_dict[display_name]
             size == IF path_exists(dk, file_path) THEN getsize(dk, file_path)
                     ELSE 0
         IN  statistics_trusting(image_dict, keys \ {display_name}, dk,
                 [acc EXCEPT !.total_size = @ + size, !.valid_files = @ + 1])

\* The loop of route_statistics over the entries of image_dict that are
\* left in keys, lines 177-191: an entry whose path exists adds its size and
\* counts as valid, any other is listed as invalid.
RECURSIVE statistics(_, _, _, _)
statistics(image_dict, keys, dk, acc) ==
    IF keys = {} THEN acc
    ELSE LET display_name == CHOOSE k \in keys : TRUE
             file_path == image_dict[display_name]
         IN  statistics(image_dict, keys \ {display_name}, dk,
                 IF path_exists(dk, file_path)
                 THEN [acc EXCEPT !.total_size = @ + getsize(dk, file_path),
                                  !.valid_files = @ + 1]
                 ELSE [acc EXCEPT !.invalid_files = @ \cup {display_name}])

\* ------------------------------------------------------------------ inputs

\* The directory entries of the lifecycle specification.
Files == { [name |-> <<"A",".","p","n","g">>, kind |-> "file", size |-> 3],
           [name |-> <<"A",".","j","p","g">>, kind |-> "file", size |-> 5],
           [name |-> <<"s",".","t","x","t">>, kind |-> "file", size |-> 7] }

\* The directory entries of the reply specification: one image more, under
\* a name of its own.
ReplyFiles == Files \cup { [name |-> <<"b",".","g","i","f">>, kind |-> "file",
                            size |-> 11] }

\* A message of n characters, none of them white space.
LongMessage(n) == [i \in 1..n |-> "x"]

\* len(message_text) > 50 is ignored.
max_message_len == 50

\* The message texts of the lifecycle specification.
Messages == { <<"A">>, <<" ","A","\t">>, <<"s">>, <<>>, <<"/","A">>,
              LongMessage(max_message_len + 1) }

\* The message texts of the reply specification: those of the lifecycle
\* specification, a message of exactly 50 characters, white space alone, and
\* a command after white space.
ReplyMessages == Messages \cup { LongMessage(max_message_len), <<" ","\t">>,
                                 <<" ","/","A">>, <<"b">> }

\* The directory entries of the scan specification: images in either letter
\* case, two files of one base name, a name that extends another, a text
\* file, a name that begins with a space, a file whose name is only an
\* extension, and a subdirectory named like an image.
ScanFiles == { [name |-> <<"A",".","p","n","g">>, kind |-> "file"],
               [name |-> <<"A",".","j","p","g">>, kind |-> "file"],
               [name |-> <<"A","2",".","p","n","g">>, kind |-> "file"],
               [name |-> <<"b",".","J","P","G">>, kind |-> "file"],
               [name |-> <<"s",".","t","x","t">>, kind |-> "file"],
               [name |-> <<" ","A",".","g","i","f">>, kind |-> "file"],
               [name |-> <<".","p","n","g">>, kind |-> "file"],
               [name |-> <<"d",".","g","i","f">>, kind |-> "dir"] }

\* The names handed to _find_image_by_name in the scan specification.
ScanNames == { <<"A">>, <<" ","A","\t">>, <<"A","2">>, <<"a">>, <<"b"," ">>,
               <<>>, <<"A",".","p","n","g">> }

\* The listings without repetition of at most n entries drawn from set S.
Listings(S, n) ==
    { l \in UNION { [1..k -> S] : k \in 0..n } :
        \A i, j \in 1..Len(l) : i # j => l[i].name # l[j].name }

\* -------------------------------------------------------------- ghost state

NoReply == [kind |-> "none"]

\* What an operation leaves in `last`: its name, the number of
\* _get_image_files_cached calls and of directory scans it made, the name
\* it handed to _find_image_by_name if it did, the response it yielded, and
\* whether it called event.stop_event().
Did(op, r, reply, stop) ==
    [op |-> op, calls |-> r.calls, scans |-> r.scans, name |-> r.name,
     reply |-> reply, stop |-> stop]

\* An operation that calls _get_image_files_cached once, with result r.
Called(r) == [calls |-> 1, scans |-> r.scans, name |-> None]

\* An operation that calls it through _find_image_by_name(name).
Looked(r, name) == [calls |-> 1, scans |-> r.scans, name |-> Some(name)]

\* An operation that does not call it.
NoCall == [calls |-> 0, scans |-> 0, name |-> None]

\* The state the result r of a _get_image_files_cached call leaves.
Install(r) ==
    /\ image_cache' = r.cache
    /\ cache_timestamp' = r.timestamp
    /\ scanned' = IF r.scans > 0
                  THEN [result |-> get_image_files(disk), at |-> clock]
                  ELSE scanned
    /\ returned' = Some(r.ret)

\* A handler may start while the plugin is loaded.
CanStart == ~terminated

\* ---------------------------------------------------------------- handlers

\* show_route_menu, to its yield.
show_route_menu ==
    LET r == get_image_files_cached(image_cache, cache_timestamp, clock, disk)
        image_dict == r.ret
    IN  /\ CanStart
        /\ Install(r)
        /\ IF image_dict = EmptyDict
           THEN last' = Did("show_route_menu", Called(r), [kind |-> "menu_empty"], FALSE)
           ELSE last' = Did("show_route_menu", Called(r),
                               [kind |-> "menu", names |-> DOMAIN image_dict,
                                count |-> dict_len(image_dict)], FALSE)
        /\ UNCHANGED <<disk, clock, wake_at, terminated, inflight, since_change>>

\* A handle_image_request that answers a text which matches nothing.
image_request_outcome_not_found(image_path, dk, message_text, build_ok) ==
    IF image_path # None /\ path_exists(dk, image_path[1])
    THEN IF build_ok
         THEN [reply |-> [kind |-> "image", caption |-> message_text,
                          path |-> image_path[1]], stops |-> TRUE]
         ELSE [reply |-> [kind |-> "send_failed", caption |-> message_text],
               stops |-> FALSE]
    ELSE [reply |-> [kind |-> "not_found", caption |-> message_text],
          stops |-> FALSE]

\* A handle_image_request without the os.path.exists test: the file that is
\* gone fails the building of the chain.
image_request_outcome_no_exists(image_path, dk, message_text, build_ok) ==
    IF image_path # None
    THEN IF build_ok /\ path_exists(dk, image_path[1])
         THEN [reply |-> [kind |-> "image", caption |-> message_text,
                          path |-> image_path[1]], stops |-> TRUE]
         ELSE [reply |-> [kind |-> "send_failed", caption |-> message_text],
               stops |-> FALSE]
    ELSE [reply |-> NoReply, stops |-> FALSE]

\* A handle_image_request that calls event.stop_event() after the try.
image_request_outcome_stop_after_try(image_path, dk, message_text, build_ok) ==
    IF image_path # None /\ path_exists(dk, image_path[1])
    THEN IF build_ok
         THEN [reply |-> [kind |-> "image", caption |-> message_text,
                          path |-> image_path[1]], stops |-> TRUE]
         ELSE [reply |-> [kind |-> "send_failed", caption |-> message_text],
               stops |-> TRUE]
    ELSE [reply |-> NoReply, stops |-> FALSE]

\* What handle_image_request does with the path it looked up, lines 128-144:
\* the response it yields, and whether event.stop_event() follows that
\* yield. build_ok: building the reply chain raises nothing.
image_request_outcome(image_path, dk, message_text, build_ok) ==
    IF image_path # None /\ path_exists(dk, image_path[1])
    THEN IF build_ok
         THEN [reply |-> [kind |-> "image", caption |-> message_text,
                          path |-> image_path[1]], stops |-> TRUE]
         ELSE [reply |-> [kind |-> "send_failed", caption |-> message_text],
               stops |-> FALSE]
    ELSE [reply |-> NoReply, stops |-> FALSE]

\* handle_image_request on message text m, to its yield or its return.
handle_image_request(m) ==
    LET message_text == strip(m)
        r == get_image_files_cached(image_cache, cache_timestamp, clock, disk)
        image_path == find_in(r.ret, message_text)
    IN  /\ CanStart
        /\ IF is_ignored(message_text)
           THEN /\ last' = Did("handle_image_request", NoCall, NoReply, FALSE)
                /\ UNCHANGED <<image_cache, cache_timestamp, scanned, returned,
                               inflight>>
           ELSE /\ Install(r)
                /\ \E build_ok \in (IF image_path # None THEN BOOLEAN ELSE {TRUE}) :
                     LET o == image_request_outcome(image_path, disk,
                                                    message_text, build_ok)
                     IN  /\ last' = Did("handle_image_request",
                                        Looked(r, message_text), o.reply, FALSE)
                         /\ IF o.stops
                            THEN /\ inflight < MaxInFlight
                                 /\ inflight' = inflight + 1
                            ELSE UNCHANGED inflight
        /\ UNCHANGED <<disk, clock, wake_at, terminated, since_change>>

\* _find_image_by_name(name)
find_image_by_name(name) ==
    LET r == get_image_files_cached(image_cache, cache_timestamp, clock, disk)
    IN  /\ CanStart
        /\ Install(r)
        /\ last' = Did("find_image_by_name", Looked(r, name),
                       [kind |-> "found", name |-> name,
                        path |-> find_in(r.ret, name)], FALSE)
        /\ UNCHANGED <<disk, clock, wake_at, terminated, inflight, since_change>>

\* clear_cache, to its yield.
clear_cache ==
    LET i == invalidate_cache(image_cache, cache_timestamp)
        r == get_image_files_cached(i.cache, i.timestamp, clock, disk)
    IN  /\ CanStart
        /\ Install(r)
        /\ last' = Did("clear_cache", Called(r),
                       [kind |-> "cleared", count |-> dict_len(r.ret)], FALSE)
        /\ UNCHANGED <<disk, clock, wake_at, terminated, inflight, since_change>>

\* A before-count of force_refresh taken after the invalidation.
old_count_late(cache) == 0

\* old_count of force_refresh, line 232: the length of the cache, 0 for a
\* cache that is absent or empty.
old_count(cache) ==
    IF cache # None /\ cache[1] # EmptyDict THEN dict_len(cache[1]) ELSE 0

\* force_refresh, to its yield.
force_refresh ==
    LET i == invalidate_cache(image_cache, cache_timestamp)
        r == get_image_files_cached(i.cache, i.timestamp, clock, disk)
        new_count == dict_len(r.ret)
    IN  /\ CanStart
        /\ Install(r)
        /\ IF new_count # old_count(image_cache)
           THEN last' = Did("force_refresh", Called(r),
                               [kind |-> "refreshed", old |-> old_count(image_cache),
                                new |-> new_count], FALSE)
           ELSE last' = Did("force_refresh", Called(r),
                               [kind |-> "refreshed_same",
                                old |-> old_count(image_cache),
                                new |-> new_count], FALSE)
        /\ UNCHANGED <<disk, clock, wake_at, terminated, inflight, since_change>>

\* A route_statistics that drops the cache once it has its numbers.
route_statistics_dropping ==
    LET r == get_image_files_cached(image_cache, cache_timestamp, clock, disk)
        image_dict == r.ret
        st == statistics(image_dict, DOMAIN image_dict, disk,
                         [total_size |-> 0, valid_files |-> 0, invalid_files |-> {}])
        i == invalidate_cache(r.cache, r.timestamp)
    IN  /\ CanStart
        /\ Install([r EXCEPT !.cache = i.cache, !.timestamp = i.timestamp])
        /\ IF image_dict = EmptyDict
           THEN last' = Did("route_statistics", Called(r), [kind |-> "stats_empty"], FALSE)
           ELSE last' = Did("route_statistics", Called(r),
                               [kind |-> "stats", total |-> dict_len(image_dict),
                                valid_files |-> st.valid_files,
                                invalid_files |-> st.invalid_files,
                                total_size |-> st.total_size], FALSE)
        /\ UNCHANGED <<disk, clock, wake_at, terminated, inflight, since_change>>

\* route_statistics, to its yield.
route_statistics ==
    LET r == get_image_files_cached(image_cache, cache_timestamp, clock, disk)
        image_dict == r.ret
        st == statistics(image_dict, DOMAIN image_dict, disk,
                         [total_size |-> 0, valid_files |-> 0, invalid_files |-> {}])
    IN  /\ CanStart
        /\ Install(r)
        /\ IF image_dict = EmptyDict
           THEN last' = Did("route_statistics", Called(r), [kind |-> "stats_empty"], FALSE)
           ELSE last' = Did("route_statistics", Called(r),
                               [kind |-> "stats", total |-> dict_len(image_dict),
                                valid_files |-> st.valid_files,
                                invalid_files |-> st.invalid_files,
                                total_size |-> st.total_size], FALSE)
        /\ UNCHANGED <<disk, clock, wake_at, terminated, inflight, since_change>>

\* handle_image_request from the yield of line 136 to its end.
handle_image_request_resume ==
    /\ inflight > 0
    /\ inflight' = inflight - 1
    /\ last' = Did("handle_image_request_resume", NoCall, NoReply, TRUE)
    /\ UNCHANGED <<disk, clock, image_cache, cache_timestamp, wake_at, terminated,
                   scanned, since_change, returned>>

\* ------------------------------------------------- cleaner task and teardown

\* A cleaner that leaves a cache younger than cache_duration alone.
periodic_cache_cleaner_if_stale ==
    /\ clock >= wake_at
    /\ IF cache_is_fresh(image_cache, cache_timestamp, clock)
       THEN UNCHANGED <<image_cache, cache_timestamp, returned>>
       ELSE /\ image_cache' = None
            /\ cache_timestamp' = 0
            /\ returned' = None
    /\ wake_at' = clock + cleaner_interval
    /\ last' = Did("periodic_cache_cleaner", NoCall, NoReply, FALSE)
    /\ UNCHANGED <<disk, clock, terminated, inflight, scanned, since_change>>

\* One round of _periodic_cache_cleaner: the sleep has ended, the cache is
\* invalidated and the next sleep begins.
periodic_cache_cleaner ==
    /\ clock >= wake_at
    /\ image_cache' = invalidate_cache(image_cache, cache_timestamp).cache
    /\ cache_timestamp' = invalidate_cache(image_cache, cache_timestamp).timestamp
    /\ wake_at' = clock + cleaner_interval
    /\ returned' = None
    /\ last' = Did("periodic_cache_cleaner", NoCall, NoReply, FALSE)
    /\ UNCHANGED <<disk, clock, terminated, inflight, scanned, since_change>>

\* A terminate that only logs.
terminate_keeping_cache ==
    /\ ~terminated
    /\ terminated' = TRUE
    /\ last' = Did("terminate", NoCall, NoReply, FALSE)
    /\ UNCHANGED <<disk, clock, image_cache, cache_timestamp, wake_at, inflight,
                   scanned, since_change, returned>>

\* terminate
terminate ==
    /\ ~terminated
    /\ terminated' = TRUE
    /\ image_cache' = invalidate_cache(image_cache, cache_timestamp).cache
    /\ cache_timestamp' = invalidate_cache(image_cache, cache_timestamp).timestamp
    /\ returned' = None
    /\ last' = Did("terminate", NoCall, NoReply, FALSE)
    /\ UNCHANGED <<disk, clock, wake_at, inflight, scanned, since_change>>

\* -------------------------------------------------------------- environment

Env == Did("env", NoCall, NoReply, FALSE)

\* time.time() advances.
AdvanceClock ==
    /\ clock + TimeStep <= MaxClock
    /\ clock' = clock + TimeStep
    /\ since_change' = IF since_change + TimeStep < cache_duration
                       THEN since_change + TimeStep ELSE cache_duration
    /\ last' = Env
    /\ UNCHANGED <<disk, image_cache, cache_timestamp, wake_at, terminated,
                   inflight, scanned, returned>>

\* A file appears in the directory, at any place of the listing.
AddFile(e, i) ==
    /\ disk.state = "ok"
    /\ Len(disk.entries) < MaxFiles
    /\ \A j \in 1..Len(disk.entries) : disk.entries[j].name # e.name
    /\ i \in 0..Len(disk.entries)
    /\ disk' = [disk EXCEPT !.entries =
                   SubSeq(@, 1, i) \o <<e>> \o SubSeq(@, i + 1, Len(@))]
    /\ since_change' = 0
    /\ last' = Env
    /\ UNCHANGED <<clock, image_cache, cache_timestamp, wake_at, terminated,
                   inflight, scanned, returned>>

\* A file is deleted from the directory.
RemoveFile(i) ==
    /\ disk.state = "ok"
    /\ i \in 1..Len(disk.entries)
    /\ disk' = [disk EXCEPT !.entries =
                   SubSeq(@, 1, i - 1) \o SubSeq(@, i + 1, Len(@))]
    /\ since_change' = 0
    /\ last' = Env
    /\ UNCHANGED <<clock, image_cache, cache_timestamp, wake_at, terminated,
                   inflight, scanned, returned>>

\* The directory is removed, or created again.
SetDirState(s) ==
    /\ s # disk.state
    /\ disk' = [state |-> s,
                entries |-> IF s = "missing" THEN <<>> ELSE disk.entries]
    /\ since_change' = 0
    /\ last' = Env
    /\ UNCHANGED <<clock, image_cache, cache_timestamp, wake_at, terminated,
                   inflight, scanned, returned>>

\* ----------------------------------------------------------- specification

\* The state after __init__: no cache, the cleaner task asleep, and the
\* directory as _ensure_menu_directory leaves it (present, or missing when
\* it could not be created).
Init ==
    /\ disk \in { [state |-> "ok", entries |-> l] : l \in Listings(Files, MaxFiles) }
                \cup { [state |-> "missing", entries |-> <<>>] }
    /\ clock = 0
    /\ image_cache = None
    /\ cache_timestamp = 0
    /\ wake_at = clock + cleaner_interval
    /\ terminated = FALSE
    /\ inflight = 0
    /\ scanned = [result |-> EmptyDict, at |-> 0]
    /\ since_change = 0
    /\ returned = None
    /\ last = Did("init", NoCall, NoReply, FALSE)

Next ==
    \/ show_route_menu
    \/ \E m \in Messages : handle_image_request(m)
    \/ clear_cache
    \/ force_refresh
    \/ route_statistics
    \/ handle_image_request_resume
    \/ periodic_cache_cleaner
    \/ terminate
    \/ AdvanceClock
    \/ \E e \in Files, i \in 0..MaxFiles : AddFile(e, i)
    \/ \E i \in 1..MaxFiles : RemoveFile(i)
    \/ \E s \in {"ok", "missing"} : SetDirState(s)

Spec == Init /\ [][Next]_vars

\* The reply specification: the handlers at one clock value, over a
\* directory that is present and readable, unreadable, or missing, and that
\* changes between the handlers.
InitReply ==
    /\ disk \in { [state |-> st, entries |-> l] :
                     st \in {"ok", "unreadable"},
                     l \in Listings(ReplyFiles, MaxFiles) }
                \cup { [state |-> "missing", entries |-> <<>>] }
    /\ clock = 0
    /\ image_cache = None
    /\ cache_timestamp = 0
    /\ wake_at = clock + cleaner_interval
    /\ terminated = FALSE
    /\ inflight = 0
    /\ scanned = [result |-> EmptyDict, at |-> 0]
    /\ since_change = 0
    /\ returned = None
    /\ last = Did("init", NoCall, NoReply, FALSE)

NextReply ==
    \/ show_route_menu
    \/ \E m \in ReplyMessages : handle_image_request(m)
    \/ clear_cache
    \/ force_refresh
    \/ route_statistics
    \/ handle_image_request_resume
    \/ \E e \in ReplyFiles, i \in 0..MaxFiles : AddFile(e, i)
    \/ \E i \in 1..MaxFiles : RemoveFile(i)
    \/ \E s \in {"ok", "missing", "unreadable"} : SetDirState(s)

SpecReply == InitReply /\ [][NextReply]_vars

\* The scan specification: _get_image_files and _find_image_by_name applied
\* to every directory of at most MaxListing entries of ScanFiles, present and
\* readable, unreadable, or missing.
InitScan ==
    /\ disk \in { [state |-> st, entries |-> l] :
                     st \in {"ok", "unreadable"}, l \in Listings(ScanFiles, MaxListing) }
                \cup { [state |-> "missing", entries |-> <<>>] }
    /\ clock = 0
    /\ image_cache = None
    /\ cache_timestamp = 0
    /\ wake_at = clock + cleaner_interval
    /\ terminated = FALSE
    /\ inflight = 0
    /\ scanned = [result |-> EmptyDict, at |-> 0]
    /\ since_change = 0
    /\ returned = None
    /\ last = Did("init", NoCall, NoReply, FALSE)

NextScan ==
    \/ \E name \in ScanNames : find_image_by_name(name)
    \/ show_route_menu

SpecScan == InitScan /\ [][NextScan]_vars

\* ------------------------------------------------------------------ claims

\* The operations that call _get_image_files_cached and nothing else on the
\* cache: the plain lookups.
LookupOps == {"show_route_menu", "handle_image_request", "route_statistics"}

\* The operations that invalidate and then call _get_image_files_cached.
RefreshOps == {"clear_cache", "force_refresh"}

\* C1: a lookup made after an earlier lookup, with no invalidation between
\* the two and less than cache_duration after the last scan, makes no
\* directory scan and returns the dict the earlier lookup returned, whatever
\* the directory holds by then.
C1_RepeatedLookupReusesCache ==
    [][ ( /\ last'.op \in LookupOps /\ last'.calls = 1
          /\ returned # None
          /\ clock - scanned.at < cache_duration )
        => ( last'.scans = 0 /\ returned' = returned ) ]_vars

\* C1 happens: a lookup answered from the cache, later than the scan, with
\* a dict that is no longer what the directory holds.
C1_Witness ==
    /\ last.op \in LookupOps /\ last.calls = 1 /\ last.scans = 0
    /\ returned # None
    /\ clock > scanned.at
    /\ returned[1] # get_image_files(disk)

\* C2: _invalidate_cache followed by _get_image_files_cached makes exactly
\* one directory scan and returns what that scan found, at every clock value
\* and every age of the cache: both when the two calls are one handler
\* (clear_cache, force_refresh) and when the invalidation came earlier (the
\* cleaner, terminate) and no lookup was made since.
C2_InvalidateThenGetRescansOnce ==
    [][ ( last'.calls = 1 /\ (last'.op \in RefreshOps \/ returned = None) )
        => ( /\ last'.scans = 1
             /\ returned' = Some(get_image_files(disk))
             /\ image_cache' = returned'
             /\ cache_timestamp' = clock ) ]_vars

\* C2 happens: force_refresh found a non-empty cache that was younger than
\* cache_duration, and scanned once.
C2_Witness ==
    /\ last.op = "force_refresh" /\ last.scans = 1
    /\ last.reply.old > 0
    /\ clock > 0 /\ clock < cache_duration

\* The cleaner has fired and no lookup was made since.
TickPending == returned = None /\ wake_at # cleaner_interval /\ ~terminated

\* C3: a round of the cleaner leaves the cache absent whatever its age, and
\* the first lookup after it, with or without a handler suspended at its
\* yield, makes exactly one scan and returns what the directory holds then.
C3_TickForcesFreshScan ==
    [][ /\ last'.op = "periodic_cache_cleaner"
           => (image_cache' = None /\ cache_timestamp' = 0)
        /\ (TickPending /\ last'.op \in LookupOps /\ last'.calls = 1)
           => ( /\ last'.scans = 1
                /\ returned' = Some(get_image_files(disk))
                /\ image_cache' = returned' ) ]_vars

\* C3 happens: with a handler suspended at its yield, a lookup at the clock
\* value of the cleaner's round scanned the directory and found something
\* else than the scan before the round could have.
C3_Witness ==
    /\ last.op = "route_statistics" /\ last.scans = 1
    /\ inflight > 0
    /\ wake_at = clock + cleaner_interval
    /\ since_change < cache_duration
    /\ returned # None /\ returned[1] # EmptyDict

\* C4: once terminate has run, the cleaner never fires again.
C4_NoTickAfterTerminate ==
    [][ terminated => last'.op # "periodic_cache_cleaner" ]_vars

\* C5: the cache is absent with timestamp 0, or it is in full what one
\* directory scan found, with the clock value of that scan as its timestamp;
\* and a dict handed to a reader is what one scan found.
C5_CacheIsOneScan ==
    /\ \/ image_cache = None /\ cache_timestamp = 0
       \/ /\ image_cache # None
          /\ image_cache[1] = scanned.result
          /\ cache_timestamp = scanned.at
    /\ returned # None => returned[1] = scanned.result

\* C5 happens: the cache is present and is no longer what the directory
\* holds, while a handler is suspended and the cleaner has fired before.
C5_Witness ==
    /\ image_cache # None /\ image_cache[1] # EmptyDict
    /\ get_image_files(disk) # EmptyDict
    /\ image_cache[1] # get_image_files(disk)
    /\ inflight > 0
    /\ wake_at # cleaner_interval

\* C6: a lookup that finds the cache absent, or cache_duration or more old,
\* scans and stores the scan with the clock value; every dict a lookup
\* returns comes from a scan less than cache_duration before it; and a
\* lookup made cache_duration or more after the last change of the
\* directory returns what the directory holds.
C6_StaleCacheIsRescanned ==
    [][ /\ ( /\ last'.op \in LookupOps /\ last'.calls = 1
             /\ (image_cache = None \/ clock - cache_timestamp >= cache_duration) )
           => ( /\ last'.scans = 1
                /\ image_cache' = Some(get_image_files(disk))
                /\ cache_timestamp' = clock )
        /\ last'.calls = 1
           => ( /\ clock' - scanned'.at < cache_duration
                /\ returned' = Some(scanned'.result)
                /\ since_change' >= cache_duration
                   => returned' = Some(get_image_files(disk')) ) ]_vars

\* C6 happens: a lookup found a cache cache_duration or more old and
\* rescanned, long after the directory changed.
C6_Witness ==
    /\ last.op \in LookupOps /\ last.scans = 1
    /\ since_change >= cache_duration
    /\ clock = scanned.at
    /\ wake_at = cleaner_interval
    /\ returned # None /\ returned[1] # EmptyDict

\* ------------------------------------------------- claims about the scan

\* Two characters that are equal, or the two cases of one letter.
SameLetter(c1, c2) ==
    c1 = c2 \/ \E i \in 1..Len(Upper) : {c1, c2} = {Upper[i], Lower[i]}

\* name ends with extension ext in some letter case, after a base name that
\* is more than dots.
EndsWith(name, ext) ==
    /\ Len(name) > Len(ext)
    /\ \A i \in 1..Len(ext) : SameLetter(name[Len(name) - Len(ext) + i], ext[i])
    /\ \E i \in 1..(Len(name) - Len(ext)) : name[i] # "."

\* name has a recognized extension.
Recognized(name) == \E ext \in image_extensions : EndsWith(name, ext)

\* The base name of a name with a recognized extension.
BaseName(name) ==
    LET ext == CHOOSE e \in image_extensions : EndsWith(name, e)
    IN  SubSeq(name, 1, Len(name) - Len(ext))

\* The places in the listing of the regular files with a recognized extension.
Kept(dk) ==
    { i \in 1..Len(dk.entries) :
        dk.entries[i].kind = "file" /\ Recognized(dk.entries[i].name) }

\* The path of the i-th entry of the listing.
PathOf(dk, i) == menu_dir \o <<"/">> \o dk.entries[i].name

\* The directory is readable and the cache holds a scan of it. (In the scan
\* specification the directory never changes.)
Scanned == disk.state = "ok" /\ image_cache # None

\* Every entry of the directory is a regular file with a recognized extension.
OnlyImages(dk) == Kept(dk) = 1..Len(dk.entries)

\* C7 as claimed: a directory of only files with recognized extensions
\* scans to as many entries as it has files.
C7_OneEntryPerFile ==
    (Scanned /\ OnlyImages(disk))
        => dict_len(image_cache[1]) = Len(disk.entries)

\* C7 as amended: a directory of only files with recognized extensions scans
\* to one entry per distinct base name, keyed by base name; that is one entry
\* per file when no two files share a base name.
C7_OneEntryPerBaseName ==
    (Scanned /\ OnlyImages(disk))
        => LET d == image_cache[1]
               bases == { BaseName(disk.entries[i].name) : i \in 1..Len(disk.entries) }
           IN  /\ DOMAIN d = bases
               /\ dict_len(d) = Cardinality(bases)
               /\ (\A i, j \in 1..Len(disk.entries) :
                      i # j => BaseName(disk.entries[i].name)
                                 # BaseName(disk.entries[j].name))
                  => dict_len(d) = Len(disk.entries)

\* C7 happens: three image files, two of them of one base name, were scanned.
C7_Witness ==
    /\ Scanned /\ OnlyImages(disk)
    /\ Len(disk.entries) = 3
    /\ \E i, j \in 1..3 :
          i # j /\ BaseName(disk.entries[i].name) = BaseName(disk.entries[j].name)
    /\ dict_len(image_cache[1]) = 2

\* C8: of two files with one base name and different recognized extensions,
\* the scan keeps one entry, with the path of the file listed later; the
\* dict has one entry per distinct base name.
C8_LaterFileOverwrites ==
    Scanned
        => LET d == image_cache[1]
           IN  /\ \A i, j \in Kept(disk) :
                    ( /\ i < j
                      /\ BaseName(disk.entries[i].name) = BaseName(disk.entries[j].name)
                      /\ ~\E l \in Kept(disk) :
                            l > j /\ BaseName(disk.entries[l].name)
                                       = BaseName(disk.entries[j].name) )
                    => ( /\ BaseName(disk.entries[j].name) \in DOMAIN d
                         /\ d[BaseName(disk.entries[j].name)] = PathOf(disk, j)
                         /\ d[BaseName(disk.entries[j].name)] # PathOf(disk, i) )
               /\ dict_len(d)
                    = Cardinality({ BaseName(disk.entries[i].name) : i \in Kept(disk) })

\* C8 happens: A.png listed before A.jpg, beside a third image, and the scan
\* kept A.jpg for A.
C8_Witness ==
    /\ Scanned
    /\ Len(disk.entries) = 3
    /\ \E i, j \in 1..3 :
          /\ i < j
          /\ disk.entries[i].name = <<"A",".","p","n","g">>
          /\ disk.entries[j].name = <<"A",".","j","p","g">>
    /\ dict_len(image_cache[1]) = 2
    /\ image_cache[1][<<"A">>] = <<"/","m","/","A",".","j","p","g">>

\* The scan of A.png, b.JPG, s.txt.
ExampleDict ==
    (<<"A">> :> <<"/","m","/","A",".","p","n","g">>)
        @@ (<<"b">> :> <<"/","m","/","b",".","J","P","G">>)

\* C9: the scan keeps exactly the regular files whose extension is, in some
\* letter case, one of image_extensions; a key is the base name as written
\* and its value the path as written; A.png, b.JPG, s.txt scan to A and b.
C9_ScanKeepsExactlyImages ==
    Scanned
        => LET d == image_cache[1]
           IN  /\ DOMAIN d = { BaseName(disk.entries[i].name) : i \in Kept(disk) }
               /\ \A k \in DOMAIN d :
                     \E i \in Kept(disk) :
                        BaseName(disk.entries[i].name) = k /\ d[k] = PathOf(disk, i)
               /\ { disk.entries[i].name : i \in 1..Len(disk.entries) }
                     = { <<"A",".","p","n","g">>, <<"b",".","J","P","G">>,
                         <<"s",".","t","x","t">> }
                  => d = ExampleDict

\* C9 happens: A.png, b.JPG and s.txt were scanned.
C9_Witness ==
    /\ Scanned
    /\ { disk.entries[i].name : i \in 1..Len(disk.entries) }
          = { <<"A",".","p","n","g">>, <<"b",".","J","P","G">>,
              <<"s",".","t","x","t">> }
    /\ dict_len(image_cache[1]) = 2

\* t is name without its leading and trailing white space.
IsTrimOf(t, name) ==
    \E i \in 1..(Len(name) + 1), j \in 0..Len(name) :
        /\ t = SubSeq(name, i, j)
        /\ \A k \in 1..(i - 1) : name[k] \in Whitespace
        /\ \A k \in (j + 1)..Len(name) : name[k] \in Whitespace
        /\ t # <<>> => (t[1] \notin Whitespace /\ t[Len(t)] \notin Whitespace)

\* C10: _find_image_by_name returns a path exactly when the name without its
\* leading and trailing white space is a key of the dict
\* _get_image_files_cached returned, and then that key's path.
C10_FindIsTrimThenExactMatch ==
    (last.op = "find_image_by_name")
        => LET d == returned[1]
               hit == { k \in DOMAIN d : IsTrimOf(k, last.reply.name) }
           IN  IF hit = {}
               THEN last.reply.path = None
               ELSE \E k \in hit : last.reply.path = Some(d[k])

\* C10 happens: beside A2.png, a padded "A" found A.png.
C10_Witness ==
    /\ last.op = "find_image_by_name"
    /\ last.reply.name = <<" ","A","\t">>
    /\ \E i \in 1..Len(disk.entries) : disk.entries[i].name = <<"A","2",".","p","n","g">>
    /\ last.reply.path = Some(<<"/","m","/","A",".","p","n","g">>)

\* --------------------------------------------- claims about the handlers

\* The text of message m is ignored: it has no character other than white
\* space, or its first such character is "/", or 51 characters or more lie
\* from its first such character to its last.
IsIgnored(m) ==
    LET inked == { i \in 1..Len(m) : m[i] \notin Whitespace }
        first == CHOOSE i \in inked : \A j \in inked : i <= j
        final == CHOOSE i \in inked : \A j \in inked : j <= i
    IN  \/ inked = {}
        \/ m[first] = "/"
        \/ final - first + 1 >= 51

\* Which messages of the reply specification are ignored.
Ignored == [m \in ReplyMessages |-> IsIgnored(m)]

\* C11: handle_image_request on an ignored message yields nothing, does not
\* stop the event, calls no lookup and scans nothing, and leaves the cache
\* and its timestamp as they were; a message of exactly 50 characters is
\* looked up.
C11_IgnoredMessagesChangeNothing ==
    [][ \A m \in ReplyMessages :
          (last'.op = "handle_image_request" /\ handle_image_request(m))
            => IF Ignored[m]
               THEN /\ last'.reply = NoReply /\ ~last'.stop
                    /\ last'.calls = 0 /\ last'.scans = 0
                    /\ image_cache' = image_cache
                    /\ cache_timestamp' = cache_timestamp
                    /\ inflight' = inflight
               ELSE last'.calls = 1 ]_vars

\* C11 happens: a message was ignored while the cache was absent and the
\* directory held an image, so a lookup would have scanned.
C11_Witness ==
    /\ last.op = "handle_image_request" /\ last.calls = 0
    /\ image_cache = None
    /\ get_image_files(disk) # EmptyDict

\* The text of message m without its leading and trailing white space.
TrimOf(m) ==
    LET inked == { i \in 1..Len(m) : m[i] \notin Whitespace }
        first == CHOOSE i \in inked : \A j \in inked : i <= j
        final == CHOOSE i \in inked : \A j \in inked : j <= i
    IN  IF inked = {} THEN <<>> ELSE SubSeq(m, first, final)

\* The trimmed texts of the messages of the reply specification.
Trimmed == [m \in ReplyMessages |-> TrimOf(m)]

\* handle_image_request looked message m up and the mapping it got has no
\* display name equal to the trimmed text.
MatchesNothing(m) ==
    /\ last'.op = "handle_image_request"
    /\ ~Ignored[m]
    /\ handle_image_request(m)
    /\ \A k \in DOMAIN returned'[1] : k # Trimmed[m]

\* C12 as stated: a processed message that matches no display name is
\* answered with a plain "not found" message.
C12_NoMatchIsReported ==
    [][ \A m \in ReplyMessages :
          MatchesNothing(m) => last'.reply.kind = "not_found" ]_vars

\* C12: a processed message that matches no display name is answered with
\* nothing, and the event is not stopped; the lookup it made is the whole
\* of what the handler did.
C12_NoMatchIsSilent ==
    [][ \A m \in ReplyMessages :
          MatchesNothing(m)
            => /\ last'.reply = NoReply /\ ~last'.stop
               /\ last'.calls = 1
               /\ inflight' = inflight ]_vars

\* C12 happens: a message was looked up in a mapping that is not empty and
\* whose files all exist, and nothing was yielded.
C12_Witness ==
    /\ last.op = "handle_image_request" /\ last.calls = 1
    /\ last.reply = NoReply
    /\ returned # None /\ returned[1] # EmptyDict
    /\ last.name # None /\ last.name[1] \notin DOMAIN returned[1]
    /\ \A k \in DOMAIN returned[1] : path_exists(disk, returned[1][k])

\* handle_image_request looked message m up, the mapping it got has the
\* trimmed text as a display name, and the file of that entry is gone.
FileVanished(m) ==
    /\ last'.op = "handle_image_request"
    /\ ~Ignored[m]
    /\ handle_image_request(m)
    /\ Trimmed[m] \in DOMAIN returned'[1]
    /\ ~path_exists(disk, returned'[1][Trimmed[m]])

\* handle_image_request looked message m up and the file of its entry exists.
FilePresent(m) ==
    /\ last'.op = "handle_image_request"
    /\ ~Ignored[m]
    /\ handle_image_request(m)
    /\ Trimmed[m] \in DOMAIN returned'[1]
    /\ path_exists(disk, returned'[1][Trimmed[m]])

\* C13 as stated: a name of the cached mapping whose file is gone is
\* answered with the send-failure message.
C13_VanishedFileIsReported ==
    [][ \A m \in ReplyMessages :
          FileVanished(m) => last'.reply.kind = "send_failed" ]_vars

\* C13: a name of the cached mapping whose file is gone at the existence
\* test is answered with nothing; the send-failure message answers a file
\* that exists and whose chain could not be built; in both cases the event
\* is not stopped and the plugin stays loaded.
C13_VanishedFileIsSilent ==
    [][ \A m \in ReplyMessages :
          /\ FileVanished(m)
               => /\ last'.reply = NoReply /\ ~last'.stop
                  /\ inflight' = inflight
                  /\ CanStart'
          /\ FilePresent(m)
               => /\ last'.reply.kind \in {"image", "send_failed"}
                  /\ last'.reply.kind = "send_failed"
                       => /\ ~last'.stop /\ inflight' = inflight
                          /\ CanStart' ]_vars

\* C13 happens: the cache was not scanned again, the name looked up is in
\* it, its file is gone, and nothing was yielded.
C13_Witness ==
    /\ last.op = "handle_image_request" /\ last.scans = 0
    /\ last.name # None /\ returned # None
    /\ last.name[1] \in DOMAIN returned[1]
    /\ ~path_exists(disk, returned[1][last.name[1]])
    /\ disk.state = "ok"
    /\ last.reply = NoReply

\* The operations that are handlers of messages and commands.
HandlerOps == {"show_route_menu", "handle_image_request", "clear_cache",
               "force_refresh", "route_statistics"}

\* The reply is what a handler yields over a mapping that is empty: nothing,
\* or the message of a listing, a statistics, a clearing or a refresh that
\* found no image.
EmptyReply(reply) ==
    \/ reply.kind \in {"none", "menu_empty", "stats_empty"}
    \/ reply.kind = "cleared" /\ reply.count = 0
    \/ reply.kind \in {"refreshed", "refreshed_same"} /\ reply.new = 0

\* C14: while the directory is missing or unreadable a scan gives the empty
\* mapping, a handler that scanned stored and got the empty mapping and
\* yielded nothing or the message for no image, and every handler can be
\* started again on every message.
C14_BadDirectoryNeverFaults ==
    disk.state \in {"missing", "unreadable"}
      => /\ get_image_files(disk) = EmptyDict
         /\ (last.op \in HandlerOps /\ last.scans = 1)
              => /\ image_cache = Some(EmptyDict)
                 /\ returned = Some(EmptyDict)
                 /\ EmptyReply(last.reply)
         /\ ENABLED show_route_menu
         /\ ENABLED route_statistics
         /\ ENABLED clear_cache
         /\ ENABLED force_refresh
         /\ \A m \in ReplyMessages : ENABLED handle_image_request(m)

\* C14 happens: a handler scanned an unreadable directory that holds an
\* image.
C14_Witness ==
    /\ disk.state = "unreadable"
    /\ \E i \in 1..Len(disk.entries) : disk.entries[i].name = <<"A", ".", "p", "n", "g">>
    /\ last.op \in HandlerOps /\ last.scans = 1
    /\ returned = Some(EmptyDict)

\* The sum of the sizes of the entries of the directory at the places of I.
RECURSIVE SizeSum(_)
SizeSum(I) ==
    IF I = {} THEN 0
    ELSE LET i == CHOOSE j \in I : TRUE
         IN  disk.entries[i].size + SizeSum(I \ {i})

\* The display names of the mapping d whose path is the path of an entry
\* of the directory.
OnDisk(d) ==
    { k \in DOMAIN d : /\ disk.state # "missing"
                       /\ \E i \in 1..Len(disk.entries) : PathOf(disk, i) = d[k] }

\* C16: the statistics of a mapping count all its entries in the total,
\* count as valid the entries whose path exists and list all others as
\* invalid, so that valid and invalid add up to the total, and sum the
\* sizes of the files of the valid entries only.
C16_StatisticsSplitValidInvalid ==
    (last.op = "route_statistics" /\ last.reply.kind = "stats")
      => LET d == returned[1]
             stats == last.reply
         IN  /\ stats.total = Cardinality(DOMAIN d)
             /\ stats.valid_files = Cardinality(OnDisk(d))
             /\ stats.invalid_files = (DOMAIN d) \ OnDisk(d)
             /\ stats.valid_files + Cardinality(stats.invalid_files) = stats.total
             /\ stats.total_size =
                  SizeSum({ i \in 1..Len(disk.entries) :
                              \E k \in OnDisk(d) : PathOf(disk, i) = d[k] })

\* C16 happens: of two cached entries one file was deleted after the scan
\* and the other is still there.
C16_Witness ==
    /\ last.op = "route_statistics" /\ last.reply.kind = "stats"
    /\ last.scans = 0
    /\ last.reply.total = 2
    /\ last.reply.valid_files = 1
    /\ Cardinality(last.reply.invalid_files) = 1
    /\ last.reply.total_size > 0

\* The operations that invalidate the cache.
ClearingOps == {"clear_cache", "force_refresh", "periodic_cache_cleaner",
                "terminate"}

\* C15: a step of the image-request handler, the listing or the statistics
\* leaves a cache in place: it leaves the cache and its timestamp as they
\* are when the cache is fresh, and otherwise puts one scan of the directory
\* and the time of that scan in their place; a step that leaves the cache
\* absent where it was present is the periodic tick or teardown.
C15_LookupsNeverClearTheCache ==
    [][ /\ last'.op \in {"show_route_menu", "handle_image_request",
                         "route_statistics", "handle_image_request_resume"}
          => IF last'.calls = 0 \/ cache_is_fresh(image_cache, cache_timestamp, clock)
             THEN image_cache' = image_cache /\ cache_timestamp' = cache_timestamp
             ELSE /\ image_cache' = Some(get_image_files(disk))
                  /\ cache_timestamp' = clock
        /\ (image_cache # None /\ image_cache' = None)
          => last'.op \in {"periodic_cache_cleaner", "terminate"}
        /\ (image_cache' # image_cache /\ last'.op \notin ClearingOps)
          => image_cache' = Some(get_image_files(disk)) ]_vars

\* C15 happens: the statistics were asked for over a cache that was absent
\* or older than cache_duration, later than cache_duration after the start,
\* and a scan that found an image took its place.
C15_Witness ==
    /\ last.op = "route_statistics" /\ last.scans = 1
    /\ cache_timestamp = clock /\ clock > cache_duration
    /\ image_cache # None /\ image_cache[1] # EmptyDict
    /\ since_change < cache_duration

\* The number of entries of a cache, 0 for a cache that is absent.
CountOf(cache) == IF cache = None THEN 0 ELSE Cardinality(DOMAIN cache[1])

\* C17: force_refresh reports the number of entries the cache had when it
\* started and the number of entries of the directory, scans once, and
\* leaves that scan in the cache with the time of the step; clear_cache
\* scans once, reports the number of entries of the directory and leaves
\* that scan in the cache. Neither ever leaves the cache absent, so nothing
\* runs between its invalidation and its scan.
C17_RefreshCountsBeforeAndAfter ==
    [][ /\ last'.op = "force_refresh"
          => /\ last'.reply.old = CountOf(image_cache)
             /\ last'.reply.new = Cardinality(DOMAIN get_image_files(disk))
             /\ last'.calls = 1 /\ last'.scans = 1
             /\ image_cache' = Some(get_image_files(disk))
             /\ cache_timestamp' = clock
             /\ scanned'.at = clock
        /\ last'.op = "clear_cache"
          => /\ last'.reply.count = Cardinality(DOMAIN get_image_files(disk))
             /\ last'.calls = 1 /\ last'.scans = 1
             /\ image_cache' = Some(get_image_files(disk))
             /\ cache_timestamp' = clock
             /\ scanned'.at = clock ]_vars

\* C17 happens: force_refresh ran over a fresh cache with an entry, after
\* the directory had lost its images.
C17_Witness ==
    /\ last.op = "force_refresh"
    /\ last.reply.old = 1 /\ last.reply.new = 0
    /\ image_cache = Some(EmptyDict)
    /\ clock > 0 /\ cache_timestamp = clock

\* C18: once terminate has run the cache is absent and its timestamp is 0,
\* and a lookup made in that state would scan the directory and return that
\* scan.
C18_TerminateDiscardsCache ==
    terminated
      => /\ image_cache = None
         /\ cache_timestamp = 0
         /\ LET r == get_image_files_cached(image_cache, cache_timestamp, clock, disk)
            IN  r.scans = 1 /\ r.ret = get_image_files(disk)

\* C18 happens: terminate ran before the first tick, less than
\* cache_duration after a scan that found an image, and the directory has
\* lost that image since.
C18_Witness ==
    /\ last.op = "terminate"
    /\ clock < cleaner_interval
    /\ scanned.result # EmptyDict
    /\ clock - scanned.at < cache_duration
    /\ get_image_files(disk) = EmptyDict

\* C19: the event is stopped only by a handle_image_request that resumes
\* from its yield; a handler is left at that yield only when it has yielded
\* the caption and the image of the name it looked up, which is in the
\* mapping it got and whose file exists; a handle_image_request that yields
\* anything else or nothing stops no event and is not left at the yield.
C19_StopOnlyAfterImage ==
    [][ /\ last'.stop
          => /\ last'.op = "handle_image_request_resume"
             /\ inflight > 0 /\ inflight' = inflight - 1
        /\ inflight' > inflight
          => /\ last'.op = "handle_image_request" /\ last'.reply.kind = "image"
             /\ last'.name # None
             /\ last'.name[1] \in OnDisk(returned'[1])
             /\ last'.reply.caption = last'.name[1]
             /\ last'.reply.path = returned'[1][last'.name[1]]
        /\ (last'.op = "handle_image_request" /\ last'.reply.kind # "image")
          => ~last'.stop /\ inflight' = inflight ]_vars

\* C19 happens: a handler that had yielded an image resumed and stopped its
\* event.
C19_Witness ==
    /\ last.op = "handle_image_request_resume" /\ last.stop
    /\ inflight = 0

\* C20: while the cache holds the empty mapping and is younger than
\* cache_duration, the image-request handler, the listing and the
\* statistics scan nothing, get the empty mapping, leave the cache as it
\* is, and yield nothing or the message for no image, whatever the
\* directory holds by then.
C20_EmptyScanIsCached ==
    [][ ( /\ image_cache = Some(EmptyDict)
          /\ clock - cache_timestamp < cache_duration
          /\ last'.op \in {"show_route_menu", "handle_image_request",
                           "route_statistics"}
          /\ last'.calls = 1 )
        => /\ last'.scans = 0
           /\ returned' = Some(EmptyDict)
           /\ image_cache' = Some(EmptyDict)
           /\ cache_timestamp' = cache_timestamp
           /\ last'.reply.kind \in {"none", "menu_empty", "stats_empty"} ]_vars

\* C20 happens: a lookup got the cached empty mapping without a scan while
\* the directory held an image.
C20_Witness ==
    /\ last.op \in {"show_route_menu", "handle_image_request", "route_statistics"}
    /\ last.calls = 1 /\ last.scans = 0
    /\ returned = Some(EmptyDict)
    /\ get_image_files(disk) # EmptyDict

====
